---- MODULE Spec2Model ----
(***************************************************************************)
(* The Dropdown widget of yaroslav-volkov-dev/dropdown, in its two         *)
(* versions:                                                               *)
(*   "four"  src/src/App.tsx        dropdownStatus in CLOSED / OPENING /   *)
(*                                  OPEN / CLOSING, position written with  *)
(*                                  style.setProperty                      *)
(*   "two"   src/unnamed/part_000   boolean isOpen, position kept in the   *)
(*                                  menuPosition state and rendered as an  *)
(*                                  inline style                           *)
(* One behaviour follows one mounted Dropdown of one version.  A step is   *)
(* one DOM event together with every handler it reaches, the re-render and *)
(* the layout effect of the commit.  The passive effect that re-registers  *)
(* the animationend listener is a step of its own: React runs it after the *)
(* commit, and an animationend may be delivered before it.                 *)
(***************************************************************************)
EXTENDS Integers, Sequences, FiniteSets, TLC

VARIABLES
  variant,          \* which version of the widget is mounted
  dropdownStatus,   \* four: useState<DropdownStatus>
  isOpen,           \* two: useState(false)
  menuPosition,     \* two: useState<PositionCoordinates>
  menuMounted,      \* menuRef.current is an element
  menuStyle,        \* top/bottom/left/width of the menu element's style
  animListener,     \* four: dropdownStatus captured by the registered
                    \*       animationend listener, "NONE" when none
  effectPending,    \* four: the [dropdownStatus] passive effect has not run
  dropdownRect,     \* dropdownRef.current.getBoundingClientRect()
  menuHeight,       \* height of the menu element when it is rendered
  windowHeight,     \* window.innerHeight
  onSelectCalls,    \* arguments of the calls of the onSelect prop, in order
  selectedOptionId, \* App: useState<string | null>(null)
  optionsProp,      \* the options prop of Dropdown
  mounted,          \* the Dropdown is mounted
  focus,            \* the element that has the keyboard focus
  quiet,            \* the user has stopped interacting with the page
  listeners,        \* how many listeners of this Dropdown the document has for
                    \* mousedown and touchstart, and the window for resize
  lastEvent,        \* the DOM event handled by the latest step
  before            \* the open state that event found

vars == <<variant, dropdownStatus, isOpen, menuPosition, menuMounted,
          menuStyle, animListener, effectPending, dropdownRect, menuHeight,
          windowHeight, onSelectCalls, selectedOptionId, optionsProp, mounted,
          focus, quiet, listeners, lastEvent, before>>

geometry == <<dropdownRect, menuHeight, windowHeight>>
host == <<onSelectCalls, selectedOptionId>>
history == <<lastEvent, before>>
lifecycle == <<mounted, listeners>>

----------------------------------------------------------------------------
(* Bounds *)

MaxCoord == 1     \* the trigger's bottom and the window's height range over
                  \* 0..MaxCoord; the menu is empty or MaxCoord high
MaxX == 1         \* the trigger's x and width are 0 or MaxX
NumOptions == 2   \* options in the list (App passes 8)
MaxCalls == 1     \* onSelect calls followed in one behaviour
MaxListLen == 2   \* options in a list a host passes, where the host is any

----------------------------------------------------------------------------
(* Values *)

CLOSED == "CLOSED"
OPEN == "OPEN"
CLOSING == "CLOSING"
OPENING == "OPENING"
DropdownStatus == {CLOSED, OPEN, CLOSING, OPENING}

OPEN_DROPDOWN_STATUSES == {OPEN, OPENING}
CLOSED_DROPDOWN_STATUSES == {CLOSED, CLOSING}

\* JavaScript values that are null, a number or a string
Null == <<"null">>
Undefined == <<"undefined">>
Num(n) == <<"num", n>>
Str(s) == <<"str", s>>

\* `${n}px`
Px(n) == ToString(n) \o "px"

\* an element's style with none of the four properties set
EmptyStyle == [top |-> "", bottom |-> "", left |-> "", width |-> ""]

\* const options = [{id: "1", label: "Option 1"}, ...]
options == [i \in 1..NumOptions |->
              [id |-> ToString(i), label |-> "Option " \o ToString(i)]]

\* the heights of the menu element: no option rendered, or MaxCoord
MenuHeights == {0, MaxCoord}

\* the bounding boxes of a trigger one unit tall, its top edge at or above
\* the top of the viewport included
TriggerRects == {[top |-> b - 1, bottom |-> b, x |-> x, width |-> w] :
                   b \in 0..MaxCoord, x \in {0, MaxX}, w \in {0, MaxX}}

\* the boxes and heights a resize of the window's height, or of its width,
\* can leave
VerticalResizes ==
  {m \in [rect : TriggerRects, menuHeight : MenuHeights, windowHeight : 0..MaxCoord] :
     m.rect.x = dropdownRect.x /\ m.rect.width = dropdownRect.width}
HorizontalResizes ==
  {m \in [rect : TriggerRects, menuHeight : {menuHeight}, windowHeight : {windowHeight}] :
     m.rect.top = dropdownRect.top /\ m.rect.bottom = dropdownRect.bottom}

----------------------------------------------------------------------------
(* four: src/src/App.tsx *)

\* style.setProperty(prop, value): null removes the property
setProperty(style, prop, value) ==
  [style EXCEPT ![prop] = IF value = Null THEN "" ELSE value[2]]

\* the comparison made inclusive
shouldRenderMenuUpwards_inclusive(rect, mh, wh) == rect.bottom + mh >= wh

shouldRenderMenuUpwards(rect, mh, wh) == rect.bottom + mh > wh

\* the style of the menu element after updateMenuCoordinates()
updateMenuCoordinates(menu, style, rect, mh, wh) ==
  IF ~menu THEN style
  ELSE LET up == shouldRenderMenuUpwards(rect, mh, wh)
           top == IF up THEN Null ELSE Str(Px(rect.bottom))
           bottom == IF up THEN Str(Px(wh - rect.top)) ELSE Null
           left == Str(Px(rect.x))
           width == Str(Px(rect.width))
           s1 == setProperty(style, "top", top)
           s2 == setProperty(s1, "bottom", bottom)
           s3 == setProperty(s2, "left", left)
       IN setProperty(s3, "width", width)

\* DropdownMenu rendering the <ul> only while opening or open
DropdownMenu_openOnly(status) == status \in OPEN_DROPDOWN_STATUSES

\* DropdownMenu renders the <ul> unless the status is CLOSED
DropdownMenu(status) == status # CLOSED

\* the listener the [dropdownStatus] effect leaves registered when it runs
\* for a render with the given status
animationEffect(menu, status) == IF menu THEN status ELSE "NONE"

\* setDropdownStatus(s) with the re-render it causes: the passive effect of
\* the previous render is flushed, the menu is rendered or removed, the
\* layout effect runs, the passive effect of this render is left pending
setDropdownStatus(s) ==
  IF s = dropdownStatus
  THEN UNCHANGED <<dropdownStatus, menuMounted, menuStyle, animListener,
                   effectPending>>
  ELSE /\ dropdownStatus' = s
       /\ menuMounted' = DropdownMenu(s)
       /\ animListener' = IF effectPending
                          THEN animationEffect(menuMounted, dropdownStatus)
                          ELSE animListener
       /\ effectPending' = TRUE
       /\ LET element == IF ~DropdownMenu(s) THEN EmptyStyle
                         ELSE IF menuMounted THEN menuStyle ELSE EmptyStyle
          IN menuStyle' =
               IF s \in OPEN_DROPDOWN_STATUSES
               THEN updateMenuCoordinates(DropdownMenu(s), element,
                                          dropdownRect, menuHeight, windowHeight)
               ELSE element

openDropdown == setDropdownStatus(OPENING)

closeDropdown == setDropdownStatus(CLOSING)

\* a click during the closing animation taken as a click on an open menu
onTriggerClick_closingIsOpen ==
  IF dropdownStatus = CLOSED THEN openDropdown
  ELSE closeDropdown

onTriggerClick ==
  IF dropdownStatus \in CLOSED_DROPDOWN_STATUSES THEN openDropdown
  ELSE IF dropdownStatus \in OPEN_DROPDOWN_STATUSES THEN closeDropdown
  ELSE UNCHANGED <<dropdownStatus, menuMounted, menuStyle, animListener,
                   effectPending>>

\* the listener with the two results exchanged
onTransitionEnd_swapped(captured) ==
  IF captured = CLOSING THEN setDropdownStatus(OPEN)
  ELSE IF captured = OPENING THEN setDropdownStatus(CLOSED)
  ELSE UNCHANGED <<dropdownStatus, menuMounted, menuStyle, animListener,
                   effectPending>>

\* the animationend listener of the render whose status was `captured`
onTransitionEnd(captured) ==
  IF captured = CLOSING THEN setDropdownStatus(CLOSED)
  ELSE IF captured = OPENING THEN setDropdownStatus(OPEN)
  ELSE UNCHANGED <<dropdownStatus, menuMounted, menuStyle, animListener,
                   effectPending>>

\* the callback run twice for one activation
onSelect_twice(option) ==
  /\ onSelectCalls' = Append(Append(onSelectCalls, option), option)
  /\ selectedOptionId' = Str(option.id)

\* App: onSelect={({ id }) => setSelectedOptionId(id)}
onSelect(option) ==
  /\ onSelectCalls' = Append(onSelectCalls, option)
  /\ selectedOptionId' = Str(option.id)

----------------------------------------------------------------------------
(* two: src/unnamed/part_000 *)

\* a JavaScript value used as a condition: null and 0 are falsy
Truthy(v) == v # Null /\ v[2] # 0

\* style={{position: "fixed", ...(left && { left }), ...}}: the style React
\* applies to the <ul>, a number n written as `${n}px`
DropdownMenu2(pos) ==
  [top    |-> IF Truthy(pos.top) THEN Px(pos.top[2]) ELSE "",
   bottom |-> IF Truthy(pos.bottom) THEN Px(pos.bottom[2]) ELSE "",
   left   |-> IF Truthy(pos.left) THEN Px(pos.left[2]) ELSE "",
   width  |-> IF Truthy(pos.width) THEN Px(pos.width[2]) ELSE ""]

shouldRenderMenuUpwards2(rect, mh, wh) == rect.bottom + mh > wh

\* the menuPosition state after updateMenuCoordinates(); the trigger is
\* mounted whenever a caller runs; mh is menuRef.current?.offsetHeight || 0
updateMenuCoordinates2(triggerMounted, pos, rect, mh, wh) ==
  IF ~triggerMounted THEN pos
  ELSE LET up == shouldRenderMenuUpwards2(rect, mh, wh)
       IN [top    |-> IF up THEN Null ELSE Num(rect.bottom),
           bottom |-> IF up THEN Num(wh - rect.top) ELSE Null,
           left   |-> Num(rect.x),
           width  |-> Num(rect.width)]

\* menuRef.current?.offsetHeight || 0
offsetHeight(menu, mh) == IF menu THEN mh ELSE 0

\* setIsOpen(v) with the re-render it causes: the menu is rendered or
\* removed, and the [isOpen] layout effect recomputes the position of an
\* opened menu, which re-renders it before the browser paints
setIsOpen(v) ==
  IF v = isOpen
  THEN UNCHANGED <<isOpen, menuPosition, menuMounted, menuStyle>>
  ELSE /\ isOpen' = v
       /\ menuMounted' = v
       /\ menuPosition' =
            IF v THEN updateMenuCoordinates2(TRUE, menuPosition, dropdownRect,
                                             offsetHeight(v, menuHeight),
                                             windowHeight)
            ELSE menuPosition
       /\ menuStyle' = IF v THEN DropdownMenu2(menuPosition') ELSE EmptyStyle

----------------------------------------------------------------------------
(* The trigger's label, the same in both versions *)

\* Array.prototype.find: the index of the first option whose id is strictly
\* equal to the selected id, searched from index i; 0 when there is none
RECURSIVE findFrom(_, _, _)
findFrom(opts, selected, i) ==
  IF i > Len(opts) THEN 0
  ELSE IF Str(opts[i].id) = selected THEN i
  ELSE findFrom(opts, selected, i + 1)

\* a missing option given the label of the first option
selectedOptionLabel_firstOption(opts, selected) ==
  LET i == findFrom(opts, selected, 1)
      label == IF i = 0
               THEN (IF Len(opts) > 0 THEN Str(opts[1].label) ELSE Undefined)
               ELSE Str(opts[i].label)
  IN IF label # Undefined /\ label[2] # "" THEN label[2] ELSE "Select ..."

\* {selectedOption?.label || "Select ..."}: undefined and "" are falsy
selectedOptionLabel(opts, selected) ==
  LET i == findFrom(opts, selected, 1)
      label == IF i = 0 THEN Undefined ELSE Str(opts[i].label)
  IN IF label # Undefined /\ label[2] # "" THEN label[2] ELSE "Select ..."

\* the text the trigger button shows
triggerLabel == selectedOptionLabel(optionsProp, selectedOptionId)

----------------------------------------------------------------------------
(* Listener registrations of the [] effects, the same in both versions *)

NoListeners == [mousedown |-> 0, touchstart |-> 0, resize |-> 0]

\* document.addEventListener('mousedown', listener) and ('touchstart', listener)
outsideClickEffect(l) ==
  [l EXCEPT !.mousedown = @ + 1, !.touchstart = @ + 1]

\* the cleanup that forgets the touchstart listener
outsideClickCleanup_mousedownOnly(l) ==
  [l EXCEPT !.mousedown = @ - 1]

\* the cleanup of that effect: both listeners removed
outsideClickCleanup(l) ==
  [l EXCEPT !.mousedown = @ - 1, !.touchstart = @ - 1]

\* window.addEventListener("resize", resizeListener)
resizeEffect(l) == [l EXCEPT !.resize = @ + 1]

\* window.removeEventListener("resize", resizeListener)
resizeCleanup(l) == [l EXCEPT !.resize = @ - 1]

\* the cleanup of the [dropdownStatus] effect: the animationend listener it
\* registered, if any, is removed
animationCleanup(registered) == "NONE"

----------------------------------------------------------------------------
(* Events *)

Targets == {"trigger", "menu", "outside"}
PointerEvents == {"mousedown", "touchstart"}

\* the step handles an event of the given type on the given target
Event(type, target) ==
  /\ lastEvent' = [type |-> type, target |-> target]
  /\ before' = [dropdownStatus |-> dropdownStatus, isOpen |-> isOpen]

\* the focus after the browser's default action gave it to element f and the
\* handlers re-rendered: an element removed from the document loses it to
\* the body
focusAfter(f) ==
  focus' = IF f = "option" /\ ~menuMounted' THEN "body" ELSE f

\* a pointer or keyboard activation of a button: browsers that focus a
\* button on click, and the keyboard, leave the focus on that button, the
\* others leave it on the body; no handler calls focus()
activation(element) == \E f \in {element, "body"} : focusAfter(f)

\* a mousedown moves the focus as an activation does, and to the body when
\* it is outside; a touchstart does not move it
pointerFocus(type, target) ==
  IF type = "mousedown"
  THEN activation(CASE target = "trigger" -> "trigger"
                    [] target = "menu" -> "option"
                    [] OTHER -> "body")
  ELSE focusAfter(focus)

Init ==
  /\ variant \in {"four", "two"}
  /\ dropdownStatus = CLOSED
  /\ isOpen = FALSE
  /\ menuPosition = [top |-> Null, left |-> Null, width |-> Null, bottom |-> Null]
  /\ menuMounted = FALSE
  /\ menuStyle = EmptyStyle
  /\ animListener = "NONE"
  /\ effectPending = FALSE
  /\ dropdownRect \in TriggerRects
  /\ menuHeight \in MenuHeights
  /\ windowHeight \in 0..MaxCoord
  /\ onSelectCalls = <<>>
  /\ selectedOptionId = Null
  /\ optionsProp = options
  /\ mounted = TRUE
  /\ quiet = FALSE
  /\ focus = "body"
  /\ listeners = resizeEffect(outsideClickEffect(NoListeners))
  /\ lastEvent = [type |-> "none", target |-> "none"]
  /\ before = [dropdownStatus |-> CLOSED, isOpen |-> FALSE]

\* four: a click on the trigger button
TriggerClick ==
  /\ variant = "four"
  /\ mounted
  /\ onTriggerClick
  /\ Event("click", "trigger")
  /\ activation("trigger")
  /\ UNCHANGED <<variant, optionsProp, quiet, lifecycle, isOpen, menuPosition, geometry, host>>

\* four: a click on the button of option i; the click bubbles through the
\* portal to the trigger button, the menu being its React child
OptionClick(i) ==
  /\ variant = "four"
  /\ mounted
  /\ menuMounted
  /\ Len(onSelectCalls) < MaxCalls
  /\ LET id == optionsProp[i].id
         label == optionsProp[i].label
     IN onSelect([id |-> id, label |-> label])
  /\ onTriggerClick
  /\ Event("click", "option")
  /\ activation("option")
  /\ UNCHANGED <<variant, optionsProp, quiet, lifecycle, isOpen, menuPosition, geometry>>

\* the listener without its check that the menu is rendered
listener_noMenuCheck(target) ==
  IF \/ menuMounted /\ target = "menu"
     \/ target = "trigger"
  THEN UNCHANGED <<dropdownStatus, menuMounted, menuStyle, animListener,
                   effectPending>>
  ELSE closeDropdown

\* the listener without its check of the trigger
listener_noTriggerCheck(target) ==
  IF \/ ~menuMounted
     \/ target = "menu"
  THEN UNCHANGED <<dropdownStatus, menuMounted, menuStyle, animListener,
                   effectPending>>
  ELSE closeDropdown

\* four: the document's mousedown / touchstart listener
listener(target) ==
  IF \/ ~menuMounted
     \/ target = "menu"
     \/ target = "trigger"
  THEN UNCHANGED <<dropdownStatus, menuMounted, menuStyle, animListener,
                   effectPending>>
  ELSE closeDropdown

PointerDown(type, target) ==
  /\ variant = "four"
  /\ mounted
  /\ target = "menu" => menuMounted
  /\ listener(target)
  /\ Event(type, target)
  /\ pointerFocus(type, target)
  /\ UNCHANGED <<variant, optionsProp, quiet, lifecycle, isOpen, menuPosition, geometry, host>>

\* four: the window's resize listener, after the layout took its new
\* measurements
resizeListener ==
  menuStyle' = updateMenuCoordinates(menuMounted, menuStyle, dropdownRect',
                                     menuHeight', windowHeight')

Resize(rect, mh, wh) ==
  /\ variant = "four"
  /\ mounted
  /\ dropdownRect' = rect
  /\ menuHeight' = mh
  /\ windowHeight' = wh
  /\ resizeListener
  /\ Event("resize", "window")
  /\ UNCHANGED <<variant, focus, optionsProp, quiet, lifecycle, dropdownStatus, isOpen, menuPosition, menuMounted,
                 animListener, effectPending, host>>

\* four: an animationend event on the menu element, handled by the listener
\* that is registered when it arrives
AnimationEnd ==
  /\ variant = "four"
  /\ mounted
  /\ menuMounted
  /\ animListener # "NONE"
  /\ onTransitionEnd(animListener)
  /\ Event("animationend", "menu")
  /\ focusAfter(focus)
  /\ UNCHANGED <<variant, optionsProp, quiet, lifecycle, isOpen, menuPosition, geometry, host>>

\* four: the [dropdownStatus] passive effect runs: the listener of the
\* previous render is removed and the one of this render registered
FlushPassiveEffects ==
  /\ variant = "four"
  /\ mounted
  /\ effectPending
  /\ animListener' = animationEffect(menuMounted, dropdownStatus)
  /\ effectPending' = FALSE
  /\ UNCHANGED <<variant, focus, optionsProp, quiet, lifecycle, dropdownStatus, isOpen, menuPosition, menuMounted,
                 menuStyle, geometry, host, history>>

\* four: the Dropdown is unmounted: a pending passive effect runs, then the
\* cleanups of the three effects, and the trigger and the menu leave the DOM
Unmount ==
  /\ variant = "four"
  /\ mounted
  /\ mounted' = FALSE
  /\ listeners' = resizeCleanup(outsideClickCleanup(listeners))
  /\ animListener' =
       animationCleanup(IF effectPending
                        THEN animationEffect(menuMounted, dropdownStatus)
                        ELSE animListener)
  /\ effectPending' = FALSE
  /\ menuMounted' = FALSE
  /\ menuStyle' = EmptyStyle
  /\ focus' = "body"
  /\ UNCHANGED <<variant, optionsProp, quiet, dropdownStatus, isOpen, menuPosition,
                 geometry, host, history>>

\* two: onClick={() => setIsOpen(prevState => !prevState)}
TriggerClick2 ==
  /\ variant = "two"
  /\ mounted
  /\ setIsOpen(~isOpen)
  /\ Event("click", "trigger")
  /\ activation("trigger")
  /\ UNCHANGED <<variant, optionsProp, quiet, lifecycle, dropdownStatus, animListener, effectPending,
                 geometry, host>>

\* two: a click on the button of option i, bubbling to the trigger button
OptionClick2(i) ==
  /\ variant = "two"
  /\ mounted
  /\ menuMounted
  /\ Len(onSelectCalls) < MaxCalls
  /\ LET id == optionsProp[i].id
         label == optionsProp[i].label
     IN onSelect([id |-> id, label |-> label])
  /\ setIsOpen(~isOpen)
  /\ Event("click", "option")
  /\ activation("option")
  /\ UNCHANGED <<variant, optionsProp, quiet, lifecycle, dropdownStatus, animListener, effectPending,
                 geometry>>

\* two: the document's mousedown / touchstart listener
listener2(target) ==
  IF \/ ~menuMounted
     \/ target = "menu"
     \/ target = "trigger"
  THEN UNCHANGED <<isOpen, menuPosition, menuMounted, menuStyle>>
  ELSE setIsOpen(FALSE)

PointerDown2(type, target) ==
  /\ variant = "two"
  /\ mounted
  /\ target = "menu" => menuMounted
  /\ listener2(target)
  /\ Event(type, target)
  /\ pointerFocus(type, target)
  /\ UNCHANGED <<variant, optionsProp, quiet, lifecycle, dropdownStatus, animListener, effectPending,
                 geometry, host>>

\* two: the window's resize listener
resizeListener2 ==
  /\ menuPosition' = updateMenuCoordinates2(TRUE, menuPosition, dropdownRect',
                                            offsetHeight(menuMounted, menuHeight'),
                                            windowHeight')
  /\ menuStyle' = IF isOpen THEN DropdownMenu2(menuPosition') ELSE EmptyStyle

Resize2(rect, mh, wh) ==
  /\ variant = "two"
  /\ mounted
  /\ dropdownRect' = rect
  /\ menuHeight' = mh
  /\ windowHeight' = wh
  /\ resizeListener2
  /\ Event("resize", "window")
  /\ UNCHANGED <<variant, focus, optionsProp, quiet, lifecycle, dropdownStatus, isOpen, menuMounted, animListener,
                 effectPending, host>>

\* two: the Dropdown is unmounted: the cleanups of the two effects run, and
\* the trigger and the menu leave the DOM
Unmount2 ==
  /\ variant = "two"
  /\ mounted
  /\ mounted' = FALSE
  /\ listeners' = resizeCleanup(outsideClickCleanup(listeners))
  /\ menuMounted' = FALSE
  /\ menuStyle' = EmptyStyle
  /\ focus' = "body"
  /\ UNCHANGED <<variant, optionsProp, quiet, dropdownStatus, isOpen, menuPosition,
                 animListener, effectPending, geometry, host, history>>

Next ==
  \/ TriggerClick
  \/ \E i \in 1..NumOptions : OptionClick(i)
  \/ \E type \in PointerEvents, target \in Targets : PointerDown(type, target)
  \/ \E m \in VerticalResizes \cup HorizontalResizes :
       Resize(m.rect, m.menuHeight, m.windowHeight)
  \/ AnimationEnd
  \/ FlushPassiveEffects
  \/ Unmount
  \/ TriggerClick2
  \/ \E i \in 1..NumOptions : OptionClick2(i)
  \/ \E type \in PointerEvents, target \in Targets : PointerDown2(type, target)
  \/ \E m \in VerticalResizes \cup HorizontalResizes :
       Resize2(m.rect, m.menuHeight, m.windowHeight)
  \/ Unmount2

Spec == Init /\ [][Next]_vars

----------------------------------------------------------------------------
TypeOK ==
  /\ variant \in {"four", "two"}
  /\ dropdownStatus \in DropdownStatus
  /\ isOpen \in BOOLEAN
  /\ menuMounted \in BOOLEAN
  /\ effectPending \in BOOLEAN
  /\ animListener \in DropdownStatus \cup {"NONE"}
  /\ Len(onSelectCalls) <= MaxCalls
  /\ mounted \in BOOLEAN
  /\ quiet \in BOOLEAN
  /\ focus \in {"body", "trigger", "option"}
  /\ listeners \in [{"mousedown", "touchstart", "resize"} -> 0..1]

----------------------------------------------------------------------------
(* Outside pointer-down *)

\* C1: a mousedown / touchstart outside the trigger and the menu closes an
\* open menu (four: OPENING or OPEN becomes CLOSING; two: isOpen becomes
\* false); one inside the trigger or the menu leaves the open state alone
OutsidePointerDownCloses ==
  lastEvent.type \in PointerEvents =>
    /\ (variant = "four" /\ lastEvent.target = "outside"
          /\ before.dropdownStatus \in {OPENING, OPEN})
         => dropdownStatus = CLOSING
    /\ (variant = "two" /\ lastEvent.target = "outside" /\ before.isOpen)
         => ~isOpen
    /\ lastEvent.target \in {"trigger", "menu"}
         => /\ dropdownStatus = before.dropdownStatus
            /\ isOpen = before.isOpen

\* an outside touchstart found the four-state menu OPENING and closed it
OutsidePointerDownWitness ==
  /\ variant = "four"
  /\ mounted
  /\ lastEvent = [type |-> "touchstart", target |-> "outside"]
  /\ before.dropdownStatus = OPENING
  /\ dropdownStatus = CLOSING

----------------------------------------------------------------------------
(* Option activation *)

\* C2: after a click on an option button, in any phase in which the menu is
\* rendered, the menu is closed: four: the status is CLOSING or CLOSED;
\* two: isOpen is false
ClosedAfterOptionClick ==
  lastEvent = [type |-> "click", target |-> "option"] =>
    /\ variant = "four" => dropdownStatus \in {CLOSING, CLOSED}
    /\ variant = "two" => ~isOpen

----------------------------------------------------------------------------
(* Trigger click *)

\* C3: a trigger click opens a closed menu and closes an open one: four:
\* CLOSED or CLOSING becomes OPENING, OPEN or OPENING becomes CLOSING; two:
\* isOpen is negated, and a second click right after a click that opened
\* the menu leaves it not open
TriggerClickToggles ==
  [][/\ TriggerClick =>
          /\ dropdownStatus \in {CLOSED, CLOSING} => dropdownStatus' = OPENING
          /\ dropdownStatus \in {OPEN, OPENING} => dropdownStatus' = CLOSING
     /\ TriggerClick2 =>
          /\ isOpen' = ~isOpen
          /\ (lastEvent = [type |-> "click", target |-> "trigger"]
                /\ ~before.isOpen) => ~isOpen'
    ]_vars

\* a trigger click found the four-state menu CLOSING and reopened it
TriggerClickWitness ==
  /\ variant = "four"
  /\ mounted
  /\ lastEvent = [type |-> "click", target |-> "trigger"]
  /\ before.dropdownStatus = CLOSING
  /\ dropdownStatus = OPENING

----------------------------------------------------------------------------
(* Selection callback *)

\* C4: one activation of an option's button calls onSelect exactly once,
\* with that option's id and label, in every phase in which the menu is
\* rendered; no other event calls onSelect
OnSelectOncePerActivation ==
  [][/\ \A i \in 1..NumOptions :
          (OptionClick(i) \/ OptionClick2(i)) =>
             /\ Len(onSelectCalls') = Len(onSelectCalls) + 1
             /\ SubSeq(onSelectCalls', 1, Len(onSelectCalls)) = onSelectCalls
             /\ onSelectCalls'[Len(onSelectCalls')].id = options[i].id
             /\ onSelectCalls'[Len(onSelectCalls')].label = options[i].label
     /\ onSelectCalls' # onSelectCalls =>
          lastEvent' = [type |-> "click", target |-> "option"]
    ]_vars

\* the second option was activated during the closing animation
OnSelectWitness ==
  /\ variant = "four"
  /\ mounted
  /\ lastEvent = [type |-> "click", target |-> "option"]
  /\ before.dropdownStatus = CLOSING
  /\ onSelectCalls = <<[id |-> "2", label |-> "Option 2"]>>

----------------------------------------------------------------------------
(* Placement *)

\* the trigger {top: 500, bottom: 530} and {top: 580, bottom: 610} of the
\* worked examples
ExampleRect(top, bottom) == [top |-> top, bottom |-> bottom, x |-> 10, width |-> 100]

\* C5: updateMenuCoordinates places the menu downward, top = trigger.bottom
\* and bottom unset, when trigger.bottom + menuHeight <= windowHeight, the
\* boundary included, and upward, bottom = windowHeight - trigger.top and
\* top unset, otherwise
PlacementRule ==
  /\ (variant = "four" /\ menuMounted) =>
       IF dropdownRect.bottom + menuHeight <= windowHeight
       THEN menuStyle.top = Px(dropdownRect.bottom) /\ menuStyle.bottom = ""
       ELSE /\ menuStyle.bottom = Px(windowHeight - dropdownRect.top)
            /\ menuStyle.top = ""
  /\ (variant = "two" /\ isOpen) =>
       IF dropdownRect.bottom + menuHeight <= windowHeight
       THEN menuPosition.top = Num(dropdownRect.bottom) /\ menuPosition.bottom = Null
       ELSE /\ menuPosition.bottom = Num(windowHeight - dropdownRect.top)
            /\ menuPosition.top = Null
  /\ LET down4 == updateMenuCoordinates(TRUE, EmptyStyle, ExampleRect(500, 530), 40, 600)
         up4 == updateMenuCoordinates(TRUE, EmptyStyle, ExampleRect(580, 610), 40, 600)
         down2 == updateMenuCoordinates2(TRUE, menuPosition, ExampleRect(500, 530), 40, 600)
         up2 == updateMenuCoordinates2(TRUE, menuPosition, ExampleRect(580, 610), 40, 600)
     IN /\ down4.top = "530px" /\ down4.bottom = ""
        /\ up4.bottom = "20px" /\ up4.top = ""
        /\ down2.top = Num(530) /\ down2.bottom = Null
        /\ up2.bottom = Num(20) /\ up2.top = Null

\* an open four-state menu whose height exactly fills the room below the
\* trigger
PlacementWitness ==
  /\ variant = "four"
  /\ mounted
  /\ dropdownStatus = OPEN
  /\ menuHeight > 0
  /\ dropdownRect.bottom + menuHeight = windowHeight
  /\ menuStyle.top = Px(dropdownRect.bottom)

----------------------------------------------------------------------------
(* Applied position *)

\* C6: whenever the menu is rendered, exactly one of the top and bottom of
\* its applied style is set, for every trigger rectangle, an offset of 0
\* included
ExactlyOneOfTopBottom ==
  menuMounted => ((menuStyle.top # "") # (menuStyle.bottom # ""))

\* C7: whenever the menu is rendered, the left and width of its applied
\* style are the trigger's x and width, 0 included
LeftWidthMirrorTrigger ==
  menuMounted =>
    /\ menuStyle.left = Px(dropdownRect.x)
    /\ menuStyle.width = Px(dropdownRect.width)

----------------------------------------------------------------------------
(* Status transitions *)

Step(from, to) == dropdownStatus = from /\ dropdownStatus' = to

\* C8 as stated: every change of dropdownStatus is CLOSED -> OPENING on a
\* click, OPENING -> OPEN on animationend, OPEN -> CLOSING on a click or an
\* outside pointer-down, or CLOSING -> CLOSED on animationend
StatusCycleOnly ==
  [][dropdownStatus' # dropdownStatus =>
       \/ Step(CLOSED, OPENING) /\ lastEvent'.type = "click"
       \/ Step(OPENING, OPEN) /\ lastEvent'.type = "animationend"
       \/ Step(OPEN, CLOSING) /\ lastEvent'.type \in {"click"} \cup PointerEvents
       \/ Step(CLOSING, CLOSED) /\ lastEvent'.type = "animationend"
    ]_vars

\* C8, amended: every change of dropdownStatus is, on a click, CLOSED or
\* CLOSING -> OPENING or OPEN or OPENING -> CLOSING; on an outside
\* pointer-down, OPEN or OPENING -> CLOSING; on animationend, a change to
\* OPEN by a listener registered for OPENING or to CLOSED by one registered
\* for CLOSING, which is OPENING -> OPEN and CLOSING -> CLOSED whenever the
\* registered listener is the one of the current status
StatusTransitions ==
  [][dropdownStatus' # dropdownStatus =>
       \/ /\ lastEvent'.type = "click"
          /\ \/ Step(CLOSED, OPENING) \/ Step(CLOSING, OPENING)
             \/ Step(OPEN, CLOSING) \/ Step(OPENING, CLOSING)
       \/ /\ lastEvent'.type \in PointerEvents
          /\ lastEvent'.target = "outside"
          /\ Step(OPEN, CLOSING) \/ Step(OPENING, CLOSING)
       \/ /\ lastEvent'.type = "animationend"
          /\ \/ animListener = OPENING /\ dropdownStatus' = OPEN
             \/ animListener = CLOSING /\ dropdownStatus' = CLOSED
          /\ animListener = dropdownStatus =>
               Step(OPENING, OPEN) \/ Step(CLOSING, CLOSED)
    ]_vars

\* a click during the opening animation moved OPENING to CLOSING
StatusTransitionsWitness ==
  /\ variant = "four"
  /\ mounted
  /\ lastEvent = [type |-> "click", target |-> "trigger"]
  /\ before.dropdownStatus = OPENING
  /\ dropdownStatus = CLOSING

----------------------------------------------------------------------------
(* Resize *)

\* the applied position the placement rule gives for the measurements
RulePosition(rect, mh, wh) ==
  [top    |-> IF rect.bottom + mh <= wh THEN Px(rect.bottom) ELSE "",
   bottom |-> IF rect.bottom + mh <= wh THEN "" ELSE Px(wh - rect.top),
   left   |-> Px(rect.x),
   width  |-> Px(rect.width)]

\* C9: a resize changes neither the open state nor the onSelect calls, and
\* leaves an open menu with the applied position the placement rule gives
\* for the new measurements
ResizeRecomputesOnly ==
  [][lastEvent'.type = "resize" =>
       /\ dropdownStatus' = dropdownStatus
       /\ isOpen' = isOpen
       /\ onSelectCalls' = onSelectCalls
       /\ (isOpen' \/ dropdownStatus' \in {OPENING, OPEN}) =>
            menuStyle' = RulePosition(dropdownRect', menuHeight', windowHeight')
    ]_vars

\* C10: a recompute requested while the menu element is not mounted leaves
\* the stored and the applied position as they were
RecomputeSkippedWhenUnmounted ==
  [][(lastEvent'.type = "resize" /\ ~menuMounted) =>
       /\ menuPosition' = menuPosition
       /\ menuStyle' = menuStyle
    ]_vars

----------------------------------------------------------------------------
(* The label under any host: every options list and selected id *)

OptionIds == {"1", "2"}
OptionLabels == {"", "Option 1"}
Options == [id : OptionIds, label : OptionLabels]
OptionLists == UNION {[1..n -> Options] : n \in 0..MaxListLen}
SelectedIds == {Null, Undefined} \cup {Str(id) : id \in OptionIds \cup {"3"}}

InitLabel ==
  /\ variant \in {"four", "two"}
  /\ dropdownStatus = CLOSED
  /\ isOpen = FALSE
  /\ menuPosition = [top |-> Null, left |-> Null, width |-> Null, bottom |-> Null]
  /\ menuMounted = FALSE
  /\ menuStyle = EmptyStyle
  /\ animListener = "NONE"
  /\ effectPending = FALSE
  /\ dropdownRect = [top |-> 0, bottom |-> 1, x |-> 0, width |-> 1]
  /\ menuHeight = 1
  /\ windowHeight = 1
  /\ onSelectCalls = <<>>
  /\ selectedOptionId \in SelectedIds
  /\ optionsProp \in OptionLists
  /\ mounted = TRUE
  /\ quiet = FALSE
  /\ focus = "body"
  /\ listeners = resizeEffect(outsideClickEffect(NoListeners))
  /\ lastEvent = [type |-> "none", target |-> "none"]
  /\ before = [dropdownStatus |-> CLOSED, isOpen |-> FALSE]

\* the host re-renders Dropdown with another selectedOptionId
HostSelects(selected) ==
  /\ selectedOptionId' = selected
  /\ UNCHANGED <<variant, focus, optionsProp, quiet, lifecycle, dropdownStatus, isOpen, menuPosition,
                 menuMounted, menuStyle, animListener, effectPending, geometry,
                 onSelectCalls, history>>

\* the host re-renders the closed Dropdown with another options list
HostPassesOptions(opts) ==
  /\ ~menuMounted
  /\ optionsProp' = opts
  /\ UNCHANGED <<variant, focus, selectedOptionId, quiet, lifecycle, dropdownStatus, isOpen,
                 menuPosition, menuMounted, menuStyle, animListener,
                 effectPending, geometry, onSelectCalls, history>>

NextLabel ==
  \/ \E selected \in SelectedIds : HostSelects(selected)
  \/ \E opts \in OptionLists : HostPassesOptions(opts)

SpecLabel == InitLabel /\ [][NextLabel]_vars

\* the selected id is the id of some option of the list
SelectedPresent ==
  \E i \in 1..Len(optionsProp) : Str(optionsProp[i].id) = selectedOptionId

\* the first option of the list with the selected id
FirstSelected ==
  optionsProp[CHOOSE i \in 1..Len(optionsProp) :
                /\ Str(optionsProp[i].id) = selectedOptionId
                /\ \A j \in 1..(i - 1) : Str(optionsProp[j].id) # selectedOptionId]

\* C11: when the selected id is the id of some option, duplicates and empty
\* labels included, the trigger shows the label of the first such option
LabelOfSelectedOption ==
  SelectedPresent => triggerLabel = FirstSelected.label

\* C15: when the selected id, null and undefined included, is the id of no
\* option of the list, the trigger shows the placeholder "Select ..."
PlaceholderWhenAbsent ==
  ~SelectedPresent => triggerLabel = "Select ..."

\* a list with options, none of them with the selected id "3"
PlaceholderWitness ==
  /\ Len(optionsProp) = MaxListLen
  /\ optionsProp[1].label = "Option 1"
  /\ selectedOptionId = Str("3")
  /\ triggerLabel = "Select ..."

----------------------------------------------------------------------------
(* Listeners *)

\* C12: while the Dropdown is mounted the document has exactly one
\* mousedown and one touchstart listener of it and the window one resize
\* listener, however often the menu opened, closed or re-rendered; after the
\* unmount, in any state, none of them and no animationend listener remains
ListenersOncePerInstance ==
  /\ mounted => listeners = [mousedown |-> 1, touchstart |-> 1, resize |-> 1]
  /\ ~mounted => /\ listeners = NoListeners
                 /\ animListener = "NONE"

\* the Dropdown was unmounted during the opening animation, after the menu
\* had been closed and reopened
ListenersWitness ==
  /\ variant = "four"
  /\ ~mounted
  /\ dropdownStatus = OPENING
  /\ before.dropdownStatus = CLOSING
  /\ listeners = NoListeners

----------------------------------------------------------------------------
(* Rendering of the menu *)

\* C14: the menu element is rendered exactly when the widget is not closed:
\* four: iff the status is OPENING, OPEN or CLOSING; two: iff isOpen
MenuRenderedIffNotClosed ==
  mounted =>
    /\ variant = "four" => (menuMounted <=> dropdownStatus \in {OPENING, OPEN, CLOSING})
    /\ variant = "two" => (menuMounted <=> isOpen)

\* the four-state menu is still rendered during the closing animation
MenuRenderedWitness ==
  /\ variant = "four"
  /\ mounted
  /\ dropdownStatus = CLOSING
  /\ menuMounted

----------------------------------------------------------------------------
(* Pointer-down while closed *)

\* C18: while the menu is closed, a mousedown / touchstart outside the
\* trigger changes nothing: the status stays CLOSED, isOpen stays false,
\* the menu position is unchanged and onSelect is not called
PointerDownWhileClosedNoop ==
  [][(/\ lastEvent'.type \in PointerEvents
      /\ lastEvent'.target = "outside"
      /\ IF variant = "four" THEN dropdownStatus = CLOSED ELSE ~isOpen)
       => /\ dropdownStatus' = dropdownStatus
          /\ isOpen' = isOpen
          /\ menuMounted' = menuMounted
          /\ menuPosition' = menuPosition
          /\ menuStyle' = menuStyle
          /\ onSelectCalls' = onSelectCalls
    ]_vars

\* an outside mousedown found the four-state menu closed, after it had been
\* open and an option chosen, and left it closed
PointerDownWhileClosedWitness ==
  /\ variant = "four"
  /\ lastEvent = [type |-> "mousedown", target |-> "outside"]
  /\ before.dropdownStatus = CLOSED
  /\ dropdownStatus = CLOSED
  /\ Len(onSelectCalls) = 1

----------------------------------------------------------------------------
(* The animationend handler and the re-registration of its listener *)

\* C17: an animationend is always handled against the current status,
\* whatever the interleaving with the cleanup and re-registration of the
\* listener: it never moves CLOSING to OPEN or OPENING to CLOSED, and it
\* changes nothing while the status is OPEN or CLOSED
AnimationEndActsOnCurrentStatus ==
  [][lastEvent'.type = "animationend"
       => /\ ~(dropdownStatus = CLOSING /\ dropdownStatus' = OPEN)
          /\ ~(dropdownStatus = OPENING /\ dropdownStatus' = CLOSED)
          /\ dropdownStatus \in {OPEN, CLOSED}
               => dropdownStatus' = dropdownStatus
    ]_vars

----------------------------------------------------------------------------
(* Completion of the animations of the four-state version *)

InitLive == Init /\ variant = "four"

\* from now on no click, pointer-down, resize or unmount happens
UserStops ==
  /\ mounted
  /\ ~quiet
  /\ quiet' = TRUE
  /\ UNCHANGED <<variant, focus, optionsProp, lifecycle, dropdownStatus, isOpen,
                 menuPosition, menuMounted, menuStyle, animListener,
                 effectPending, geometry, host, history>>

NextLive ==
  \/ ~quiet /\ TriggerClick
  \/ ~quiet /\ \E i \in 1..NumOptions : OptionClick(i)
  \/ ~quiet /\ \E type \in PointerEvents, target \in Targets :
                 PointerDown(type, target)
  \/ UserStops
  \/ AnimationEnd
  \/ FlushPassiveEffects

\* the browser eventually delivers the animationend of a running animation
\* and React eventually runs a pending passive effect
SpecLive ==
  /\ InitLive
  /\ [][NextLive]_vars
  /\ WF_vars(AnimationEnd)
  /\ WF_vars(FlushPassiveEffects)

\* C16: once the user has stopped, a widget in CLOSING eventually is CLOSED
\* with the menu unmounted, and a widget in OPENING eventually is OPEN
AnimationsComplete ==
  /\ (quiet /\ dropdownStatus = CLOSING)
       ~> (dropdownStatus = CLOSED /\ ~menuMounted)
  /\ (quiet /\ dropdownStatus = OPENING) ~> (dropdownStatus = OPEN)

----------------------------------------------------------------------------
(* Focus *)

\* C13: after the click on an option called onSelect, the keyboard focus is
\* on the trigger
FocusOnTriggerAfterSelect ==
  (mounted /\ lastEvent = [type |-> "click", target |-> "option"])
    => focus = "trigger"

====
